---- MODULE Spec2Model ----
(***************************************************************************)
(* A model of src/vm.py: the Frame (operand stack, name mappings, the      *)
(* fetch-dispatch loop and its opcode handlers), the callable built by     *)
(* make_function_op with its parameter binding, and VirtualMachine.run.    *)
(*                                                                         *)
(* Values are tagged records.  A dict is a TLA+ function whose DOMAIN is   *)
(* its key set; the dicts a frame refers to live in the heap `dicts` and   *)
(* are named by their index there, so that two frames (or the locals and   *)
(* the globals of one frame) can hold the very same dict.  Iterators are   *)
(* objects with a state of their own and live in the heap `iters`.         *)
(***************************************************************************)
EXTENDS Integers, Sequences, FiniteSets, TLC

VARIABLES
    dicts,      \* heap of dicts: dicts[i] is the mapping of the dict object i
    frames,     \* the stack of Frame objects whose run() is active, innermost last
    status,     \* "running", "done", or the kind of the Python exception that ended the run
    last,       \* history: the last operation executed, its argument and the state before it
    made,       \* history: the callable last built by make_function_op, and the locals of
                \* its defining frame as they were then
    iters       \* heap of iterators: iters[i] is the sequence the iterator object i
                \* runs over and the number of its elements already taken

vars == <<dicts, frames, status, last, made, iters>>

----------------------------------------------------------------------------
(* Bounds of the model *)

MaxStack == 3       \* operand-stack depth explored under an unknown instruction stream
MaxInstr == 3       \* number of instructions of an unknown code object
MaxFrames == 3      \* depth of nested calls explored
MaxHole == 1        \* unknown instructions at each open place of a program

(* Program constants *)

CO_VARARGS == 4
CO_VARKEYWORDS == 8

----------------------------------------------------------------------------
(* Values *)

None == [t |-> "None"]
PyInt(i) == [t |-> "int", i |-> i]
Str(s) == [t |-> "str", s |-> s]
Tuple(s) == [t |-> "tuple", s |-> s]
Dict(d) == [t |-> "dict", d |-> d]
CodeType(c) == [t |-> "code", c |-> c]
Iterator(at) == [t |-> "iterator", at |-> at]
Exception(cls) == [t |-> "exception", cls |-> cls]     \* an instance of BaseException
Type(cls) == [t |-> "type", cls |-> cls]                \* the class of such an instance
Traceback == [t |-> "traceback"]

\* The closure f of make_function_op: it captures name, code, defaults and self (the
\* defining Frame, known by the dicts it refers to; a Frame never rebinds them).
Function(name, code, defaults, self) ==
    [t |-> "function", name |-> name, code |-> code, defaults |-> defaults, self |-> self]

\* Python truthiness of a value: bool(v)
truthy(v) ==
    CASE v.t = "int" -> v.i # 0
      [] v.t = "None" -> FALSE
      [] v.t = "str" -> v.s # ""
      [] v.t = "tuple" -> v.s # <<>>
      [] v.t = "dict" -> DOMAIN v.d # {}
      [] OTHER -> TRUE

EmptyDict == <<>>

\* d.update(e): the entries of e override those of d
update(d, e) == e @@ d

\* dict(zip(names, values)): pairs up to the shorter of the two
dictzip(names, values) ==
    LET n == IF Len(names) < Len(values) THEN Len(names) ELSE Len(values)
    IN  [k \in {names[i] : i \in 1..n} |->
            values[CHOOSE i \in 1..n : names[i] = k /\ \A j \in (i+1)..n : names[j] # k]]

\* del d[k]
delitem(d, k) == [x \in DOMAIN d \ {k} |-> d[x]]

\* Python slice bounds: a negative bound counts from the end, and both are clamped
clamp(i, n) == IF i < 0 THEN (IF i + n < 0 THEN 0 ELSE i + n) ELSE (IF i > n THEN n ELSE i)

\* s[start:stop]
slice(s, start, stop) == SubSeq(s, clamp(start, Len(s)) + 1, clamp(stop, Len(s)))

\* s[start:]
slicefrom(s, start) == SubSeq(s, clamp(start, Len(s)) + 1, Len(s))

Reverse(s) == [i \in 1..Len(s) |-> s[Len(s) + 1 - i]]

----------------------------------------------------------------------------
(* Code objects and instructions *)

Instr(opname, argval) == [opname |-> opname, argval |-> argval]

\* An instruction of a code object whose instruction stream is not fixed by the model:
\* the fetch at that place yields any instruction of the instruction set explored.
Unknown == Instr("?", None)

UnknownCode == [i \in 1..MaxInstr |-> Unknown]

\* types.CodeType, as far as the interpreter reads it
Code(varnames, argcount, posonlyargcount, kwonlyargcount, flags, code) ==
    [co_varnames |-> varnames, co_argcount |-> argcount,
     co_posonlyargcount |-> posonlyargcount, co_kwonlyargcount |-> kwonlyargcount,
     co_flags |-> flags, co_code |-> code]

\* tuple(dis.get_instructions(code))
instructions(code) == code.co_code

----------------------------------------------------------------------------
(* Frame *)

\* Frame.__init__, with the dicts given by their place in the heap
Frame(frame_code, frame_builtins, frame_globals, frame_locals) ==
    [code |-> frame_code, builtins |-> frame_builtins, globals |-> frame_globals,
     locals |-> frame_locals, data_stack |-> <<>>, return_value |-> None,
     counter |-> 0, last_exception |-> <<>>, jump |-> None, bytecode_len |-> 0]

\* The first lines of Frame.run, up to the loop
run_enter(F) ==
    [F EXCEPT !.bytecode_len = 2 * Len(instructions(F.code)), !.counter = 0]

Top == frames[Len(frames)]

\* What a handler leaves behind: the frame, the heap, the exception it raised ("" when
\* none) and the value it returned
ok(F, D) == [F |-> F, D |-> D, exc |-> "", ret |-> None, I |-> iters]
raise(F, D, kind) == [F |-> F, D |-> D, exc |-> kind, ret |-> None, I |-> iters]

empty(F) == F.data_stack = <<>>

top(F) == F.data_stack[Len(F.data_stack)]

\* Frame.push
push(F, values) == [F EXCEPT !.data_stack = @ \o values]

\* Frame.pop on a non-empty stack: the frame afterwards and the value returned
pop(F) ==
    [F |-> [F EXCEPT !.data_stack = SubSeq(@, 1, Len(@) - 1)], v |-> top(F)]

\* Frame.popn returning the values top-first
popn_top_first(F, n) ==
    IF n > 0
    THEN [F |-> [F EXCEPT !.data_stack = SubSeq(@, 1, clamp(-n, Len(@)))],
          v |-> Reverse(slicefrom(F.data_stack, -n))]
    ELSE [F |-> F, v |-> <<>>]

\* Frame.popn: the frame afterwards and the list returned
popn(F, n) ==
    IF n > 0
    THEN [F |-> [F EXCEPT !.data_stack = SubSeq(@, 1, clamp(-n, Len(@)))],
          v |-> slicefrom(F.data_stack, -n)]
    ELSE [F |-> F, v |-> <<>>]

----------------------------------------------------------------------------
(* The loop of Frame.run *)

\* The instruction the loop fetches: instructions[self.counter // 2]
fetch(F) == instructions(F.code)[(F.counter \div 2) + 1]

fetched(F, opname, argval) ==
    LET i == fetch(F)
    IN  i.opname = "?" \/ (i.opname = opname /\ i.argval = argval)

\* The arguments to try for an instruction opname at the pointer: the one the code
\* holds there or, where the instruction is unknown, each of S
operands(opname, S) ==
    IF status = "running" /\ Top.counter < Top.bytecode_len
    THEN IF fetch(Top).opname = "?" THEN S
         ELSE IF fetch(Top).opname = opname THEN {fetch(Top).argval}
         ELSE {}
    ELSE {}

\* What one step did, for stating properties of it: the operation and its argument,
\* the innermost frame, the dicts and the call depth it started from, the value it
\* returned and, for a call, the callable and the arguments it was called with; for a
\* handler run by the loop, also self.jump as the handler left it and the iterators
\* it started from
Did(op, argval, ret, fn, args, kwargs) ==
    [op |-> op, argval |-> argval, frame |-> Top, dicts |-> dicts,
     depth |-> Len(frames), index |-> Top.counter \div 2, ret |-> ret,
     f |-> fn, args |-> args, kwargs |-> kwargs, jump |-> None, iters |-> iters]

\* The end of one pass of the loop, were self.jump left as the handler set it
advance_keeps_jump(F) ==
    IF F.jump.t = "int"
    THEN [F EXCEPT !.counter = F.jump.i]
    ELSE [F EXCEPT !.counter = @ + 2]

\* The end of one pass of the loop, after the handler has returned
advance(F) ==
    IF F.jump.t = "int"
    THEN [F EXCEPT !.counter = F.jump.i, !.jump = None]
    ELSE [F EXCEPT !.counter = @ + 2]

\* One pass of the loop of Frame.run in the innermost frame: the instruction
\* <<opname, argval>> is fetched, its handler leaves `out`, and the pointer moves.
\* An exception raised by the handler leaves run(), and every caller's run(), at once.
Step(opname, argval, out) ==
    /\ status = "running"
    /\ Top.counter < Top.bytecode_len
    /\ fetched(Top, opname, argval)
    /\ fetch(Top).opname = "?" =>
          Len(out.F.data_stack) <= (IF Len(Top.data_stack) > MaxStack
                                    THEN Len(Top.data_stack) ELSE MaxStack)
    /\ dicts' = out.D
    /\ IF out.exc = ""
       THEN /\ frames' = [frames EXCEPT ![Len(frames)] = advance(out.F)]
            /\ status' = "running"
       ELSE /\ frames' = [frames EXCEPT ![Len(frames)] = out.F]
            /\ status' = out.exc
    /\ iters' = out.I
    /\ last' = [Did(opname, argval, out.ret, None, <<>>, EmptyDict)
                   EXCEPT !.jump = out.F.jump]
    /\ made' = IF opname = "MAKE_FUNCTION" /\ out.exc = ""
               THEN [f |-> top(out.F), locals |-> dicts[Top.locals]]
               ELSE made

----------------------------------------------------------------------------
(* Opcode handlers.  Each is the action of one pass of the loop that dispatches to it. *)

nop_op(arg) == Step("NOP", arg, ok(Top, dicts))

load_const_op(arg) == Step("LOAD_CONST", arg, ok(push(Top, <<arg>>), dicts))

pop_top_op(arg) ==
    Step("POP_TOP", arg,
         IF empty(Top) THEN raise(Top, dicts, "IndexError") ELSE ok(pop(Top).F, dicts))

\* load_name_op looking into the globals before the locals
load_name_op_globals_first(arg) ==
    Step("LOAD_NAME", arg,
         IF arg \in DOMAIN dicts[Top.globals]
         THEN ok(push(Top, <<dicts[Top.globals][arg]>>), dicts)
         ELSE IF arg \in DOMAIN dicts[Top.locals]
         THEN ok(push(Top, <<dicts[Top.locals][arg]>>), dicts)
         ELSE IF arg \in DOMAIN dicts[Top.builtins]
         THEN ok(push(Top, <<dicts[Top.builtins][arg]>>), dicts)
         ELSE raise(Top, dicts, "NameError"))

load_name_op(arg) ==
    Step("LOAD_NAME", arg,
         IF arg \in DOMAIN dicts[Top.locals]
         THEN ok(push(Top, <<dicts[Top.locals][arg]>>), dicts)
         ELSE IF arg \in DOMAIN dicts[Top.globals]
         THEN ok(push(Top, <<dicts[Top.globals][arg]>>), dicts)
         ELSE IF arg \in DOMAIN dicts[Top.builtins]
         THEN ok(push(Top, <<dicts[Top.builtins][arg]>>), dicts)
         ELSE raise(Top, dicts, "NameError"))

load_global_op(arg) ==
    Step("LOAD_GLOBAL", arg,
         IF arg \in DOMAIN dicts[Top.globals]
         THEN ok(push(Top, <<dicts[Top.globals][arg]>>), dicts)
         ELSE IF arg \in DOMAIN dicts[Top.builtins]
         THEN ok(push(Top, <<dicts[Top.builtins][arg]>>), dicts)
         ELSE raise(Top, dicts, "NameError"))

store_name_op(arg) ==
    Step("STORE_NAME", arg,
         IF empty(Top) THEN raise(Top, dicts, "IndexError")
         ELSE ok(pop(Top).F,
                 [dicts EXCEPT ![Top.locals] = update(@, (arg :> pop(Top).v))]))

store_fast_op(arg) ==
    Step("STORE_FAST", arg,
         IF empty(Top) THEN raise(Top, dicts, "IndexError")
         ELSE ok(pop(Top).F,
                 [dicts EXCEPT ![Top.locals] = update(@, (arg :> pop(Top).v))]))

store_global_op(arg) ==
    Step("STORE_GLOBAL", arg,
         IF empty(Top) THEN raise(Top, dicts, "IndexError")
         ELSE ok(pop(Top).F,
                 [dicts EXCEPT ![Top.globals] = update(@, (arg :> pop(Top).v))]))

delete_name_op(namei) ==
    Step("DELETE_NAME", namei,
         IF namei \in DOMAIN dicts[Top.globals]
         THEN ok(Top, [dicts EXCEPT ![Top.globals] = delitem(@, namei)])
         ELSE raise(Top, dicts, "KeyError"))

delete_fast_op(namei) ==
    Step("DELETE_FAST", namei,
         IF namei \in DOMAIN dicts[Top.locals]
         THEN ok(Top, [dicts EXCEPT ![Top.locals] = delitem(@, namei)])
         ELSE raise(Top, dicts, "KeyError"))

pop_jump_if_true_op(target) ==
    Step("POP_JUMP_IF_TRUE", target,
         IF empty(Top) THEN raise(Top, dicts, "IndexError")
         ELSE IF truthy(pop(Top).v)
         THEN ok([pop(Top).F EXCEPT !.jump = PyInt(target)], dicts)
         ELSE ok(pop(Top).F, dicts))

pop_jump_if_false_op(target) ==
    Step("POP_JUMP_IF_FALSE", target,
         IF empty(Top) THEN raise(Top, dicts, "IndexError")
         ELSE IF ~truthy(pop(Top).v)
         THEN ok([pop(Top).F EXCEPT !.jump = PyInt(target)], dicts)
         ELSE ok(pop(Top).F, dicts))

\* jump_if_true_or_pop_op popping the tested value on both branches
jump_if_true_or_pop_op_pops(target) ==
    Step("JUMP_IF_TRUE_OR_POP", target,
         IF empty(Top) THEN raise(Top, dicts, "IndexError")
         ELSE IF truthy(top(Top))
         THEN ok([pop(Top).F EXCEPT !.jump = PyInt(target)], dicts)
         ELSE ok(pop(Top).F, dicts))

jump_if_true_or_pop_op(target) ==
    Step("JUMP_IF_TRUE_OR_POP", target,
         IF empty(Top) THEN raise(Top, dicts, "IndexError")
         ELSE IF truthy(top(Top))
         THEN ok([Top EXCEPT !.jump = PyInt(target)], dicts)
         ELSE ok(pop(Top).F, dicts))

\* jump_if_false_or_pop_op popping the tested value when it jumps and leaving it when
\* it does not
jump_if_false_or_pop_op_pops_on_jump(target) ==
    Step("JUMP_IF_FALSE_OR_POP", target,
         IF empty(Top) THEN raise(Top, dicts, "IndexError")
         ELSE IF ~truthy(top(Top))
         THEN ok([pop(Top).F EXCEPT !.jump = PyInt(target)], dicts)
         ELSE ok(Top, dicts))

jump_if_false_or_pop_op(target) ==
    Step("JUMP_IF_FALSE_OR_POP", target,
         IF empty(Top) THEN raise(Top, dicts, "IndexError")
         ELSE IF ~truthy(top(Top))
         THEN ok([Top EXCEPT !.jump = PyInt(target)], dicts)
         ELSE ok(pop(Top).F, dicts))

jump_forward_op(delta) ==
    Step("JUMP_FORWARD", delta, ok([Top EXCEPT !.jump = PyInt(delta)], dicts))

jump_absolute_op(target) ==
    Step("JUMP_ABSOLUTE", target, ok([Top EXCEPT !.jump = PyInt(target)], dicts))

\* The handler sets the pointer to bytecode_len; the loop then adds 2.
return_value_op(arg) ==
    Step("RETURN_VALUE", arg,
         IF empty(Top) THEN raise(Top, dicts, "IndexError")
         ELSE ok([pop(Top).F EXCEPT !.return_value = pop(Top).v,
                                    !.counter = Top.bytecode_len], dicts))

\* The values iter() takes, of those the specifications put on a stack; of any other
\* it raises TypeError
iterable(v) == v.t \in {"tuple", "iterator"}

\* iter(v) of an iterable v: the iterator returned and the heap afterwards.  iter of a
\* tuple is a new iterator at its start, iter of an iterator is that iterator.
iter(I, v) ==
    IF v.t = "iterator"
    THEN [I |-> I, v |-> v]
    ELSE [I |-> Append(I, [s |-> v.s, taken |-> 0]), v |-> Iterator(Len(I) + 1)]

get_iter_op(arg) ==
    Step("GET_ITER", arg,
         IF empty(Top) THEN raise(Top, dicts, "IndexError")
         ELSE IF ~iterable(pop(Top).v) THEN raise(pop(Top).F, dicts, "TypeError")
         ELSE [ok(push(pop(Top).F, <<iter(iters, pop(Top).v).v>>), dicts)
                  EXCEPT !.I = iter(iters, pop(Top).v).I])

\* for_iter_op leaving the exhausted iterator on the stack
for_iter_op_keeps(delta) ==
    Step("FOR_ITER", delta,
         IF empty(Top) THEN raise(Top, dicts, "IndexError")
         ELSE IF top(Top).t # "iterator" THEN raise(Top, dicts, "TypeError")
         ELSE LET it == iters[top(Top).at]
              IN  IF it.taken < Len(it.s)
                  THEN [ok(push(Top, <<it.s[it.taken + 1]>>), dicts)
                           EXCEPT !.I = [iters EXCEPT ![top(Top).at].taken = @ + 1]]
                  ELSE ok([Top EXCEPT !.jump = PyInt(delta)], dicts))

\* next(self.top()) of an iterator with elements left returns the next one; of an
\* exhausted one it raises StopIteration, which the handler catches; of a value that
\* is no iterator it raises TypeError
for_iter_op(delta) ==
    Step("FOR_ITER", delta,
         IF empty(Top) THEN raise(Top, dicts, "IndexError")
         ELSE IF top(Top).t # "iterator" THEN raise(Top, dicts, "TypeError")
         ELSE LET it == iters[top(Top).at]
              IN  IF it.taken < Len(it.s)
                  THEN [ok(push(Top, <<it.s[it.taken + 1]>>), dicts)
                           EXCEPT !.I = [iters EXCEPT ![top(Top).at].taken = @ + 1]]
                  ELSE ok([pop(Top).F EXCEPT !.jump = PyInt(delta)], dicts))

\* load_fast_op: for the names '.0', '.1' and '.2' it pushes iter(self.top())
load_fast_op(arg) ==
    Step("LOAD_FAST", arg,
         IF arg \in {".0", ".1", ".2"}
         THEN IF empty(Top) THEN raise(Top, dicts, "IndexError")
              ELSE IF ~iterable(top(Top)) THEN raise(Top, dicts, "TypeError")
              ELSE [ok(push(Top, <<iter(iters, top(Top)).v>>), dicts)
                       EXCEPT !.I = iter(iters, top(Top)).I]
         ELSE IF arg \in DOMAIN dicts[Top.locals]
         THEN ok(push(Top, <<dicts[Top.locals][arg]>>), dicts)
         ELSE raise(Top, dicts, "UnboundLocalError"))

\* The values dict() refuses as keys, of those the specifications put on a stack
unhashable(v) == v.t = "dict"

\* {toses[i]: toses[i + 1] for i in range(n)}, a later item replacing an earlier one of
\* the same key (toses[i] of Python is toses[i + 1] here)
RECURSIVE comprehension(_, _)
comprehension(toses, n) ==
    IF n <= 0 THEN EmptyDict
    ELSE (toses[n] :> toses[n + 1]) @@ comprehension(toses, n - 1)

\* build_map_op: popn returns fewer than 2 * count values from a shorter stack, and the
\* comprehension then raises IndexError; a key that is a dict raises TypeError
build_map_op(count) ==
    Step("BUILD_MAP", count,
         LET toses == popn(Top, 2 * count)
         IN  IF count > 0 /\ Len(toses.v) < 2 * count
             THEN raise(toses.F, dicts, "IndexError")
             ELSE IF \E i \in 1..(2 * count - 1) : unhashable(toses.v[i])
             THEN raise(toses.F, dicts, "TypeError")
             ELSE ok(push(toses.F, <<Dict(comprehension(toses.v, 2 * count - 1))>>),
                     dicts))

\* rot_two_op: whatever popn(2) returns goes back reversed
rot_two_op(arg) ==
    Step("ROT_TWO", arg,
         ok(push(popn(Top, 2).F, Reverse(popn(Top, 2).v)), dicts))

\* rot_three_op: unpacking fewer than three values raises ValueError
rot_three_op(arg) ==
    Step("ROT_THREE", arg,
         LET toses == popn(Top, 3)
         IN  IF Len(toses.v) # 3 THEN raise(toses.F, dicts, "ValueError")
             ELSE ok(push(toses.F, <<toses.v[3], toses.v[1], toses.v[2]>>), dicts))

\* rot_n_op: tos is popped, then count more values
rot_n_op(count) ==
    Step("ROT_N", count,
         IF empty(Top) THEN raise(Top, dicts, "IndexError")
         ELSE LET tos == pop(Top)
                  toses == popn(tos.F, count)
              IN  ok(push(push(toses.F, <<tos.v>>), toses.v), dicts))

\* The value raise_varargs_op returns, which Frame.run drops
outcome(tb) == IF truthy(tb) THEN Str("reraise") ELSE Str("exception")

\* raise_varargs_op: unpacking a last_exception that is not of three elements raises
\* ValueError; pop of an empty stack raises IndexError, the values above popped already
raise_varargs_op(argc) ==
    Step("RAISE_VARARGS", argc,
         LET stack == Top.data_stack
             n == Len(stack)
             pops == IF argc \in 1..3 THEN argc ELSE 0
         IN  IF argc = 0 /\ Len(Top.last_exception) # 3
             THEN raise(Top, dicts, "ValueError")
             ELSE IF n < pops
             THEN raise([Top EXCEPT !.data_stack = <<>>], dicts, "IndexError")
             ELSE LET tb == IF argc = 0 THEN Top.last_exception[3]
                            ELSE IF argc = 3 THEN stack[n] ELSE None
                      val == IF argc = 0 THEN Top.last_exception[2]
                             ELSE IF argc = 3 THEN stack[n - 1]
                             ELSE IF argc = 2 THEN stack[n] ELSE None
                      exctype == IF argc = 0 THEN Top.last_exception[1]
                                 ELSE IF argc \in 1..3 THEN stack[n - argc + 1] ELSE None
                      normal == IF exctype.t = "exception"
                                THEN <<Type(exctype.cls), exctype, tb>>
                                ELSE <<exctype, val, tb>>
                  IN  [ok([Top EXCEPT !.data_stack = SubSeq(stack, 1, n - pops),
                                      !.last_exception = normal], dicts)
                          EXCEPT !.ret = outcome(tb)])

----------------------------------------------------------------------------
(* Function construction and calls *)

\* code.co_flags & flag, for a flag that is one bit
flagged(code, flag) == (code.co_flags \div flag) % 2 = 1

\* code.co_varnames[defaults_slice]
defaults_names(code, defaults) ==
    slice(code.co_varnames, code.co_kwonlyargcount - Len(defaults), code.co_argcount)

\* varargs_name taken right after the positional parameters
varargs_name_before_kwonly(code) ==
    code.co_varnames[code.co_argcount + 1]

varargs_name(code) ==
    code.co_varnames[code.co_argcount + code.co_kwonlyargcount + 1]

varkwargs_name(code) ==
    code.co_varnames[code.co_argcount + code.co_kwonlyargcount
                     + (IF flagged(code, CO_VARARGS) THEN 1 ELSE 0) + 1]

\* The bindings the callable f computes for a call: the dict parsed_args just before
\* f copies the defining frame's locals
parsed_args(code, defaults, args, kwargs) ==
    LET has_varargs == flagged(code, CO_VARARGS)
        has_varkwargs == flagged(code, CO_VARKEYWORDS)
        posonly_names == slice(code.co_varnames, 0, code.co_posonlyargcount)
        pos_or_kw_names == slice(code.co_varnames, code.co_posonlyargcount, code.co_argcount)
        kwonly_names == slice(code.co_varnames, code.co_argcount,
                              code.co_argcount + code.co_kwonlyargcount)
        default == dictzip(defaults_names(code, defaults), defaults)
        parsed_posonlyargs == dictzip(posonly_names, slice(args, 0, code.co_posonlyargcount))
        parsed_posargs ==
            dictzip(pos_or_kw_names, slice(args, code.co_posonlyargcount, code.co_argcount))
        varargs == slicefrom(args, code.co_argcount)
        pos_or_kw == {pos_or_kw_names[i] : i \in 1..Len(pos_or_kw_names)}
        kwonly == {kwonly_names[i] : i \in 1..Len(kwonly_names)}
        parsed_kwargs == [k \in DOMAIN kwargs \cap pos_or_kw |-> kwargs[k]]
        parsed_kwonlyargs == [k \in (DOMAIN kwargs \cap kwonly) \ pos_or_kw |-> kwargs[k]]
        varkwargs == [k \in DOMAIN kwargs \ (pos_or_kw \cup kwonly) |-> kwargs[k]]
        bound == update(default,
                        update(update(update(parsed_posonlyargs, parsed_posargs),
                                      parsed_kwargs), parsed_kwonlyargs))
        with_varargs ==
            IF has_varargs
            THEN update(bound, (varargs_name(code) :> Tuple(varargs)))
            ELSE bound
    IN  IF has_varkwargs
        THEN update(with_varargs, (varkwargs_name(code) :> Dict(varkwargs)))
        ELSE with_varargs

\* The names f reads from co_varnames for the collectors are there
collectors_named(code) ==
    Len(code.co_varnames) >=
        code.co_argcount + code.co_kwonlyargcount
        + (IF flagged(code, CO_VARARGS) THEN 1 ELSE 0)
        + (IF flagged(code, CO_VARKEYWORDS) THEN 1 ELSE 0)

\* f_locals, had f copied self.locals when make_function_op built it
f_locals_at_make(D, fn, args, kwargs) ==
    update(made.locals, parsed_args(fn.code.c, fn.defaults, args, kwargs))

\* f_locals of the callable fn: a copy of self.locals, read when f is called, updated
\* with the bindings
f_locals(D, fn, args, kwargs) ==
    update(D[fn.self.locals], parsed_args(fn.code.c, fn.defaults, args, kwargs))

\* The Frame of f, had it been given globals of its own
f_frame_own_globals(fn, f_locals_at) ==
    run_enter(Frame(fn.code.c, fn.self.builtins, f_locals_at, f_locals_at))

\* The Frame f builds and runs; its locals are the new dict at place f_locals_at
f_frame(fn, f_locals_at) ==
    run_enter(Frame(fn.code.c, fn.self.builtins, fn.self.globals, f_locals_at))

\* The call f(*args, **kwargs) made by a call handler of the innermost frame, which has
\* become F by popping its operands.  If fn is the callable of make_function_op, f
\* builds the callee Frame and enters its run(); the handler goes on when that returns.
call(opname, argval, F, fn, args, kwargs) ==
    /\ status = "running"
    /\ Top.counter < Top.bytecode_len
    /\ fetched(Top, opname, argval)
    /\ Len(frames) < MaxFrames
    /\ IF fn.t # "function"
       THEN /\ status' = "TypeError"
            /\ frames' = [frames EXCEPT ![Len(frames)] = F]
            /\ dicts' = dicts
       ELSE IF fn.code.t # "code"
       THEN /\ status' = "AttributeError"
            /\ frames' = [frames EXCEPT ![Len(frames)] = F]
            /\ dicts' = dicts
       ELSE IF ~collectors_named(fn.code.c)
       THEN /\ status' = "IndexError"
            /\ frames' = [frames EXCEPT ![Len(frames)] = F]
            /\ dicts' = dicts
       ELSE /\ status' = "running"
            /\ dicts' = Append(dicts, f_locals(dicts, fn, args, kwargs))
            /\ frames' = Append([frames EXCEPT ![Len(frames)] = F],
                                f_frame(fn, Len(dicts) + 1))
    /\ last' = Did(opname, argval, None, fn, args, kwargs)
    /\ UNCHANGED <<made, iters>>

\* An exception a handler raises before it has a callable to call
call_raise(opname, argval, F, kind) ==
    Step(opname, argval, raise(F, dicts, kind))

call_function_op(arg) ==
    LET arguments == popn(Top, arg)
    IN  IF empty(arguments.F)
        THEN call_raise("CALL_FUNCTION", arg, arguments.F, "IndexError")
        ELSE call("CALL_FUNCTION", arg, pop(arguments.F).F, pop(arguments.F).v,
                  arguments.v, EmptyDict)

\* The keyword names of a call are a tuple of str
is_names(v) == v.t = "tuple" /\ \A i \in 1..Len(v.s) : v.s[i].t = "str"

call_function_kw_op(arg) ==
    IF empty(Top)
    THEN call_raise("CALL_FUNCTION_KW", arg, Top, "IndexError")
    ELSE LET kw_names == pop(Top).v
         IN  IF ~is_names(kw_names)
             THEN call_raise("CALL_FUNCTION_KW", arg, pop(Top).F, "TypeError")
             ELSE LET kw_values == popn(pop(Top).F, Len(kw_names.s))
                      kwargs == dictzip([i \in 1..Len(kw_names.s) |-> kw_names.s[i].s],
                                        kw_values.v)
                      posargs == popn(kw_values.F, arg - Len(kw_names.s))
                  IN  IF empty(posargs.F)
                      THEN call_raise("CALL_FUNCTION_KW", arg, posargs.F, "IndexError")
                      ELSE call("CALL_FUNCTION_KW", arg, pop(posargs.F).F,
                                pop(posargs.F).v, posargs.v, kwargs)

\* The dicts of a Frame, which are what the closure f reads of self
self_of(F) == [builtins |-> F.builtins, globals |-> F.globals, locals |-> F.locals]

make_function_op(arg) ==
    Step("MAKE_FUNCTION", arg,
         IF empty(Top) THEN raise(Top, dicts, "IndexError")
         ELSE IF Len(Top.data_stack) = 1 THEN raise(pop(Top).F, dicts, "IndexError")
         ELSE LET name == pop(Top)
                  code == pop(name.F)
                  defaults == popn(code.F, arg)
              IN  IF name.v.t # "str"
                  THEN raise(defaults.F, dicts, "TypeError")
                  ELSE ok(push(defaults.F,
                               <<Function(name.v.s, code.v, defaults.v, self_of(Top))>>),
                          dicts))

\* Frame.run returns.  In the outermost frame that ends VirtualMachine.run; in a frame
\* built by f, the call handler of the caller pushes the value returned and the
\* caller's loop moves on.
run_exit ==
    /\ status = "running"
    /\ Top.counter >= Top.bytecode_len
    /\ IF Len(frames) = 1
       THEN /\ status' = "done"
            /\ frames' = frames
       ELSE /\ status' = "running"
            /\ frames' = [i \in 1..(Len(frames) - 1) |->
                            IF i = Len(frames) - 1
                            THEN advance(push(frames[i], <<Top.return_value>>))
                            ELSE frames[i]]
    /\ last' = Did("run", None, Top.return_value, None, <<>>, EmptyDict)
    /\ UNCHANGED <<dicts, made, iters>>

----------------------------------------------------------------------------
(* Spec: the loop of Frame.run in one Frame over an unknown instruction stream of  *)
(* constant loads, pops, jumps and return.  The frame is the one                   *)
(* VirtualMachine.run builds: empty globals, which are its locals too.             *)

Names == {"x", "y"}

Consts == {PyInt(0), PyInt(1)}

JumpTargets == {2 * i : i \in 0..MaxInstr}

NoOp == [op |-> "", argval |-> None, frame |-> None, dicts |-> <<>>, depth |-> 0,
         index |-> 0, ret |-> None, f |-> None, args |-> <<>>, kwargs |-> EmptyDict,
         jump |-> None, iters |-> <<>>]

NoneMade == [f |-> None, locals |-> EmptyDict]

\* VirtualMachine.run up to the loop of frame.run(); dicts[1] is the builtins
Init ==
    /\ dicts = <<EmptyDict, EmptyDict>>
    /\ frames = <<run_enter(Frame(Code(<<>>, 0, 0, 0, 0, UnknownCode), 1, 2, 2))>>
    /\ status = "running"
    /\ last = NoOp
    /\ made = NoneMade
    /\ iters = <<>>

Next ==
    \/ \E c \in Consts : load_const_op(c)
    \/ pop_top_op(None)
    \/ nop_op(None)
    \/ \E t \in JumpTargets : pop_jump_if_true_op(t)
    \/ \E t \in JumpTargets : pop_jump_if_false_op(t)
    \/ \E t \in JumpTargets : jump_if_true_or_pop_op(t)
    \/ \E t \in JumpTargets : jump_if_false_or_pop_op(t)
    \/ \E t \in JumpTargets : jump_forward_op(t)
    \/ \E t \in JumpTargets : jump_absolute_op(t)
    \/ return_value_op(None)
    \/ run_exit

Spec == Init /\ [][Next]_vars

----------------------------------------------------------------------------
(* SpecNames: the name handlers of one Frame over an unknown instruction stream.   *)
(* The frame is built as Frame.__init__ builds it, from a builtins, a globals and  *)
(* a locals dict whose contents are inputs; locals is either the globals dict      *)
(* itself (as VirtualMachine.run passes it) or a dict of its own (as the callable  *)
(* f passes it).                                                                   *)

\* The dicts over Names with values in vals
DictsOver(vals) ==
    UNION {[keys -> vals] : keys \in SUBSET Names}

InitNames ==
    /\ \E b \in DictsOver({PyInt(3)}), g \in DictsOver({PyInt(2)}) :
          \/ \E l \in DictsOver({PyInt(1)}) :
                /\ dicts = <<b, g, l>>
                /\ frames = <<run_enter(Frame(Code(<<>>, 0, 0, 0, 0, UnknownCode), 1, 2, 3))>>
          \/ /\ dicts = <<b, g>>
             /\ frames = <<run_enter(Frame(Code(<<>>, 0, 0, 0, 0, UnknownCode), 1, 2, 2))>>
    /\ status = "running"
    /\ last = NoOp
    /\ made = NoneMade
    /\ iters = <<>>

NextNames ==
    \/ \E c \in Consts : load_const_op(c)
    \/ pop_top_op(None)
    \/ \E n \in Names : load_name_op(n)
    \/ \E n \in Names : load_global_op(n)
    \/ \E n \in Names : store_name_op(n)
    \/ \E n \in Names : store_fast_op(n)
    \/ \E n \in Names : store_global_op(n)
    \/ \E n \in Names : delete_name_op(n)
    \/ \E n \in Names : delete_fast_op(n)
    \/ run_exit

SpecNames == InitNames /\ [][NextNames]_vars

----------------------------------------------------------------------------
(* SpecStack: the operand stack of one Frame under direct calls of its methods     *)
(* push, pop and popn.                                                             *)

StackVals == {PyInt(0), PyInt(1), PyInt(2)}

\* Frame.push(*values)
Frame_push(values) ==
    /\ status = "running"
    /\ Len(Top.data_stack) + Len(values) <= MaxStack
    /\ frames' = [frames EXCEPT ![Len(frames)] = push(Top, values)]
    /\ last' = Did("push", values, None, None, <<>>, EmptyDict)
    /\ UNCHANGED <<dicts, status, made, iters>>

\* Frame.pop(): list.pop raises IndexError on an empty list
Frame_pop ==
    /\ status = "running"
    /\ IF empty(Top)
       THEN /\ status' = "IndexError"
            /\ last' = Did("pop", None, None, None, <<>>, EmptyDict)
            /\ UNCHANGED frames
       ELSE /\ frames' = [frames EXCEPT ![Len(frames)] = pop(Top).F]
            /\ last' = Did("pop", None, pop(Top).v, None, <<>>, EmptyDict)
            /\ UNCHANGED status
    /\ UNCHANGED <<dicts, made, iters>>

\* Frame.popn(n)
Frame_popn(n) ==
    /\ status = "running"
    /\ frames' = [frames EXCEPT ![Len(frames)] = popn(Top, n).F]
    /\ last' = Did("popn", n, popn(Top, n).v, None, <<>>, EmptyDict)
    /\ UNCHANGED <<dicts, status, made, iters>>

InitStack ==
    /\ dicts = <<EmptyDict, EmptyDict>>
    /\ frames = <<Frame(Code(<<>>, 0, 0, 0, 0, <<>>), 1, 2, 2)>>
    /\ status = "running"
    /\ last = NoOp
    /\ made = NoneMade
    /\ iters = <<>>

NextStack ==
    \/ \E v \in StackVals : Frame_push(<<v>>)
    \/ \E v, w \in StackVals : Frame_push(<<v, w>>)
    \/ Frame_pop
    \/ \E n \in 0..(MaxStack + 1) : Frame_popn(n)

SpecStack == InitStack /\ [][NextStack]_vars

----------------------------------------------------------------------------
(* SpecCall: VirtualMachine.run on a program that builds a callable with            *)
(* make_function and calls it once.  The inputs are the callable's code object (its *)
(* parameter regions and collectors), its default values, and the positional and    *)
(* keyword arguments of the call.                                                   *)

PosNames == <<"a", "b">>

\* A code object with P positional parameters, the first po of them positional-only,
\* K keyword-only parameters and the collectors asked for, laid out as CPython lays
\* out co_varnames: positional, keyword-only, *args, **kwargs
FuncCode(P, po, K, va, vk, body) ==
    Code(SubSeq(PosNames, 1, P) \o (IF K = 1 THEN <<"c">> ELSE <<>>)
            \o (IF va THEN <<"args">> ELSE <<>>) \o (IF vk THEN <<"kwargs">> ELSE <<>>),
         P, po, K,
         (IF va THEN CO_VARARGS ELSE 0) + (IF vk THEN CO_VARKEYWORDS ELSE 0),
         body)

ReturnZero == <<Instr("LOAD_CONST", PyInt(0)), Instr("RETURN_VALUE", None)>>

FuncCodes ==
    {FuncCode(P, po, K, va, vk, ReturnZero) :
        P \in 0..Len(PosNames), po \in 0..Len(PosNames), K \in 0..1,
        va \in BOOLEAN, vk \in BOOLEAN}

DefaultSeqs == {<<>>, <<PyInt(5)>>, <<PyInt(4), PyInt(5)>>}

ArgSeqs == {<<>>, <<PyInt(1)>>, <<PyInt(1), PyInt(2)>>, <<PyInt(1), PyInt(2), PyInt(3)>>}

KwOrder == <<"a", "b", "c", "z">>

KwValue(k) ==
    CASE k = "a" -> PyInt(7) [] k = "b" -> PyInt(8) [] k = "c" -> PyInt(9)
      [] OTHER -> PyInt(10)

\* The keyword names of a call: at most two of KwOrder
KwSeqs ==
    {SelectSeq(KwOrder, LAMBDA k : k \in S) :
        S \in {T \in SUBSET {"a", "b", "c", "z"} : Cardinality(T) <= 2}}

loads(values) == [i \in 1..Len(values) |-> Instr("LOAD_CONST", values[i])]

\* The instructions of: f = <function of code with defaults>; return f(*args, **kw)
CallProgram(code, defaults, args, kw) ==
    loads(defaults)
    \o <<Instr("LOAD_CONST", CodeType(code)), Instr("LOAD_CONST", Str("f")),
         Instr("MAKE_FUNCTION", Len(defaults))>>
    \o loads(args)
    \o loads([i \in 1..Len(kw) |-> KwValue(kw[i])])
    \o (IF kw = <<>>
        THEN <<Instr("CALL_FUNCTION", Len(args))>>
        ELSE <<Instr("LOAD_CONST", Tuple([i \in 1..Len(kw) |-> Str(kw[i])])),
               Instr("CALL_FUNCTION_KW", Len(args) + Len(kw))>>)
    \o <<Instr("RETURN_VALUE", None)>>

InitCall ==
    /\ dicts = <<EmptyDict, EmptyDict>>
    /\ \E code \in FuncCodes, defaults \in DefaultSeqs, args \in ArgSeqs, kw \in KwSeqs :
          /\ code.co_posonlyargcount <= code.co_argcount
          /\ frames = <<run_enter(Frame(Code(<<>>, 0, 0, 0, 0,
                                             CallProgram(code, defaults, args, kw)),
                                        1, 2, 2))>>
    /\ status = "running"
    /\ last = NoOp
    /\ made = NoneMade
    /\ iters = <<>>

NextCall ==
    \/ \E c \in operands("LOAD_CONST", {}) : load_const_op(c)
    \/ \E n \in operands("MAKE_FUNCTION", {}) : make_function_op(n)
    \/ \E n \in operands("CALL_FUNCTION", {}) : call_function_op(n)
    \/ \E n \in operands("CALL_FUNCTION_KW", {}) : call_function_kw_op(n)
    \/ return_value_op(None)
    \/ run_exit

SpecCall == InitCall /\ [][NextCall]_vars

----------------------------------------------------------------------------
(* SpecVM: VirtualMachine.run on programs that build a callable and call it, with   *)
(* unknown instructions (loads, stores and deletes of names, constants, pops,       *)
(* return) between the make_function and the call and after the call, and a        *)
(* callee made of unknown instructions.  The callee either is such a program       *)
(* itself or a leaf run of unknown instructions.                                    *)

holes(n) == [i \in 1..n |-> Unknown]

\* f = <function of code>; ... ...; f(<nargs values>); ...
Maker(code, nargs) ==
    <<Instr("LOAD_CONST", CodeType(code)), Instr("LOAD_CONST", Str("f")),
      Instr("MAKE_FUNCTION", 0)>>
    \o holes(MaxHole + 1)
    \o <<Instr("CALL_FUNCTION", nargs)>>
    \o holes(MaxHole)

\* def f(x): <unknown instructions>
Leaf == Code(<<"x">>, 1, 0, 0, 0, UnknownCode)

\* g = <function of code>; return g(1)
CallOnce(code) ==
    <<Instr("LOAD_CONST", CodeType(code)), Instr("LOAD_CONST", Str("g")),
      Instr("MAKE_FUNCTION", 0), Instr("LOAD_CONST", PyInt(1)),
      Instr("CALL_FUNCTION", 1), Instr("RETURN_VALUE", None)>>

\* The programs: a Maker run by VirtualMachine.run, whose locals are its globals, and
\* a Maker run as the callee g(x), whose locals are a dict of its own
VMPrograms ==
    {Maker(Leaf, n) : n \in 0..1}
    \cup {CallOnce(Code(<<"x">>, 1, 0, 0, 0, Maker(Leaf, n))) : n \in 0..1}

VMNames == {"x", "y"}

VMConsts == {PyInt(0)}

\* VirtualMachine.run, had it given the frame locals apart from its globals
InitVM_own_locals ==
    /\ dicts = <<EmptyDict, EmptyDict, EmptyDict>>
    /\ \E program \in VMPrograms :
          frames = <<run_enter(Frame(Code(<<>>, 0, 0, 0, 0, program), 1, 2, 3))>>
    /\ status = "running"
    /\ last = NoOp
    /\ made = NoneMade
    /\ iters = <<>>

InitVM ==
    /\ dicts = <<EmptyDict, EmptyDict>>
    /\ \E program \in VMPrograms :
          frames = <<run_enter(Frame(Code(<<>>, 0, 0, 0, 0, program), 1, 2, 2))>>
    /\ status = "running"
    /\ last = NoOp
    /\ made = NoneMade
    /\ iters = <<>>

NextVM ==
    \/ \E c \in operands("LOAD_CONST", VMConsts) : load_const_op(c)
    \/ pop_top_op(None)
    \/ \E n \in VMNames : load_name_op(n)
    \/ \E n \in VMNames : load_global_op(n)
    \/ \E n \in VMNames : store_name_op(n)
    \/ \E n \in VMNames : store_fast_op(n)
    \/ \E n \in VMNames : store_global_op(n)
    \/ \E n \in VMNames : delete_name_op(n)
    \/ \E n \in VMNames : delete_fast_op(n)
    \/ \E n \in operands("MAKE_FUNCTION", {}) : make_function_op(n)
    \/ \E n \in operands("CALL_FUNCTION", {}) : call_function_op(n)
    \/ return_value_op(None)
    \/ run_exit

SpecVM == InitVM /\ [][NextVM]_vars

----------------------------------------------------------------------------
(* Claims *)

\* C8: load_name pushes the locals value when the name is in locals, else the globals
\* value when it is in globals, else the builtins value when it is in builtins, and
\* otherwise fails with NameError leaving the operand stack unchanged.
ThmC8_LoadNameOrder ==
    last.op = "LOAD_NAME" =>
        LET n == last.argval
            F0 == last.frame
            L == last.dicts[F0.locals]
            G == last.dicts[F0.globals]
            B == last.dicts[F0.builtins]
        IN  IF n \in DOMAIN L
            THEN status = "running" /\ Top.data_stack = Append(F0.data_stack, L[n])
            ELSE IF n \in DOMAIN G
            THEN status = "running" /\ Top.data_stack = Append(F0.data_stack, G[n])
            ELSE IF n \in DOMAIN B
            THEN status = "running" /\ Top.data_stack = Append(F0.data_stack, B[n])
            ELSE status = "NameError" /\ Top.data_stack = F0.data_stack

\* C8 witness: a name bound in locals, globals and builtins to three different values
\* has been loaded, and the locals value is on top of the stack.
WitC8_LocalsPreferred ==
    /\ last.op = "LOAD_NAME"
    /\ status = "running"
    /\ last.frame.locals # last.frame.globals
    /\ last.argval \in DOMAIN last.dicts[last.frame.locals]
    /\ last.argval \in DOMAIN last.dicts[last.frame.globals]
    /\ last.argval \in DOMAIN last.dicts[last.frame.builtins]
    /\ last.dicts[last.frame.locals][last.argval] # last.dicts[last.frame.globals][last.argval]
    /\ top(Top) = last.dicts[last.frame.locals][last.argval]

\* n successive calls of pop(): the frame afterwards and the values in the order returned
RECURSIVE pops(_, _)
pops(F, n) ==
    IF n = 0 THEN [F |-> F, v |-> <<>>]
    ELSE LET r == pops(pop(F).F, n - 1)
         IN  [F |-> r.F, v |-> <<pop(F).v>> \o r.v]

\* C9: popn(0) returns an empty sequence and leaves the stack unchanged; for
\* 0 < n <= depth, popn(n) removes exactly the top n elements, leaves the elements below
\* untouched, and returns them deepest-first: the reverse of what n successive pop()
\* calls return.
ThmC9_PopnAgainstPop ==
    last.op = "popn" =>
        LET n == last.argval
            s0 == last.frame.data_stack
        IN  /\ n = 0 => last.ret = <<>> /\ Top.data_stack = s0
            /\ (0 < n /\ n <= Len(s0)) =>
                  /\ Len(last.ret) = n
                  /\ Top.data_stack = SubSeq(s0, 1, Len(s0) - n)
                  /\ last.ret = SubSeq(s0, Len(s0) - n + 1, Len(s0))
                  /\ last.ret = Reverse(pops(last.frame, n).v)
                  /\ Top.data_stack = pops(last.frame, n).F.data_stack

\* C9 witness: popn(2) has returned two different values from a stack of depth 3.
WitC9_PopnTwoOfThree ==
    /\ last.op = "popn"
    /\ last.argval = 2
    /\ Len(last.frame.data_stack) = 3
    /\ Len(last.ret) = 2
    /\ last.ret[1] # last.ret[2]
    /\ Len(Top.data_stack) = 1

\* C10, one step: jump_if_true_or_pop with a falsy top of stack pops exactly one element
\* and the next instruction executed is the following one; with a truthy top of stack it
\* leaves the stack unchanged and the next instruction executed is the jump target.
C10Step ==
    /\ (last'.op = "JUMP_IF_TRUE_OR_POP" /\ ~empty(last'.frame)) =>
          LET F0 == last'.frame
              F1 == frames'[Len(frames')]
          IN  /\ status' = "running"
              /\ F1.jump = None
              /\ IF truthy(top(F0))
                 THEN F1.data_stack = F0.data_stack /\ F1.counter = last'.argval
                 ELSE /\ F1.data_stack = SubSeq(F0.data_stack, 1, Len(F0.data_stack) - 1)
                      /\ F1.counter = F0.counter + 2
    /\ (last.op = "JUMP_IF_TRUE_OR_POP" /\ status = "running" /\ last'.op # "run") =>
          IF truthy(top(last.frame))
          THEN last'.index = last.argval \div 2
          ELSE last'.index = last.index + 1

ThmC10_JumpIfTrueOrPop == [][C10Step]_vars

\* C10 witness: jump_if_true_or_pop has jumped backwards on a truthy top of stack, over a
\* stack of depth 2 that it left as it was.
WitC10_Jumped ==
    /\ last.op = "JUMP_IF_TRUE_OR_POP"
    /\ status = "running"
    /\ Len(last.frame.data_stack) = 2
    /\ truthy(top(last.frame))
    /\ last.argval < last.frame.counter
    /\ Top.counter = last.argval
    /\ Top.data_stack = last.frame.data_stack

----------------------------------------------------------------------------
(* SpecIter: a frame that takes the iterator of a tuple and then runs unknown      *)
(* instructions: for_iter, pop_top, jump_absolute and nop, the makings of a loop.  *)

IterSeqs == {<<>>, <<PyInt(1)>>, <<PyInt(1), PyInt(2)>>}

\* it = iter(<tuple>); <unknown instructions>
IterProgram(s) ==
    <<Instr("LOAD_CONST", Tuple(s)), Instr("GET_ITER", None)>> \o UnknownCode

\* The targets of the unknown jumps: any instruction after the iterator is taken, or
\* the end of the code
IterTargets == {2 * i : i \in 2..(MaxInstr + 2)}

InitIter ==
    /\ dicts = <<EmptyDict, EmptyDict>>
    /\ \E s \in IterSeqs :
          frames = <<run_enter(Frame(Code(<<>>, 0, 0, 0, 0, IterProgram(s)), 1, 2, 2))>>
    /\ status = "running"
    /\ last = NoOp
    /\ made = NoneMade
    /\ iters = <<>>

NextIter ==
    \/ \E c \in operands("LOAD_CONST", {}) : load_const_op(c)
    \/ \E a \in operands("GET_ITER", {}) : get_iter_op(a)
    \/ \E t \in operands("FOR_ITER", IterTargets) : for_iter_op(t)
    \/ \E t \in operands("JUMP_ABSOLUTE", IterTargets) : jump_absolute_op(t)
    \/ pop_top_op(None)
    \/ nop_op(None)
    \/ run_exit

SpecIter == InitIter /\ [][NextIter]_vars

----------------------------------------------------------------------------
(* SpecRaise: one frame over an unknown instruction stream of constant loads,      *)
(* raise_varargs, pop_top and return_value.                                        *)

RaiseConsts == {None, Exception("E"), Type("E"), Traceback}

\* A raise of three operands takes three loads first, and a bare raise comes after it
RaiseCode == [i \in 1..(MaxInstr + 2) |-> Unknown]

InitRaise ==
    /\ dicts = <<EmptyDict, EmptyDict>>
    /\ frames = <<run_enter(Frame(Code(<<>>, 0, 0, 0, 0, RaiseCode), 1, 2, 2))>>
    /\ status = "running"
    /\ last = NoOp
    /\ made = NoneMade
    /\ iters = <<>>

NextRaise ==
    \/ \E c \in operands("LOAD_CONST", RaiseConsts) : load_const_op(c)
    \/ \E argc \in operands("RAISE_VARARGS", 0..3) : raise_varargs_op(argc)
    \/ pop_top_op(None)
    \/ return_value_op(None)
    \/ run_exit

SpecRaise == InitRaise /\ [][NextRaise]_vars

----------------------------------------------------------------------------
(* SpecFast: one frame with locals of its own, as a call builds it, over an        *)
(* unknown instruction stream of constant loads, load_fast and pop_top.  Each of   *)
(* the names is bound or not in the builtins (to 3), the globals (to 2) and the    *)
(* locals (to 1).                                                                  *)

\* A name of the program and the name of the first argument of a comprehension
FastNames == {"x", ".0"}

FastConsts == {PyInt(0), Tuple(<<PyInt(1)>>)}

FastDicts(v) == UNION {[keys -> {v}] : keys \in SUBSET FastNames}

InitFast ==
    /\ \E b \in FastDicts(PyInt(3)), g \in FastDicts(PyInt(2)), l \in FastDicts(PyInt(1)) :
          dicts = <<b, g, l>>
    /\ frames = <<run_enter(Frame(Code(<<>>, 0, 0, 0, 0, UnknownCode), 1, 2, 3))>>
    /\ status = "running"
    /\ last = NoOp
    /\ made = NoneMade
    /\ iters = <<>>

NextFast ==
    \/ \E c \in FastConsts : load_const_op(c)
    \/ \E n \in FastNames : load_fast_op(n)
    \/ pop_top_op(None)
    \/ run_exit

SpecFast == InitFast /\ [][NextFast]_vars

----------------------------------------------------------------------------
(* SpecData: one frame that loads four constants and then runs unknown             *)
(* instructions that shuffle the stack and build maps.                             *)

DataConsts == {PyInt(1), PyInt(2)}

\* The constants loaded first: four different ones, or with the first one again in the
\* third place
DataStacks ==
    {<<PyInt(1), PyInt(2), PyInt(3), PyInt(4)>>,
     <<PyInt(1), PyInt(2), PyInt(1), PyInt(4)>>}

DataProgram(values) == loads(values) \o UnknownCode

InitData ==
    /\ dicts = <<EmptyDict, EmptyDict>>
    /\ \E values \in DataStacks :
          frames = <<run_enter(Frame(Code(<<>>, 0, 0, 0, 0, DataProgram(values)), 1, 2, 2))>>
    /\ status = "running"
    /\ last = NoOp
    /\ made = NoneMade
    /\ iters = <<>>

NextData ==
    \/ \E c \in operands("LOAD_CONST", DataConsts) : load_const_op(c)
    \/ \E count \in operands("BUILD_MAP", 0..2) : build_map_op(count)
    \/ \E count \in operands("ROT_N", 1..4) : rot_n_op(count)
    \/ rot_two_op(None)
    \/ rot_three_op(None)
    \/ pop_top_op(None)
    \/ run_exit

SpecData == InitData /\ [][NextData]_vars

----------------------------------------------------------------------------
(* Claims about the callable f *)

\* A call handler has just called a callable built by make_function_op
Called ==
    /\ last.op \in {"CALL_FUNCTION", "CALL_FUNCTION_KW"}
    /\ last.f.t = "function"
    /\ last.f.code.t = "code"

\* ... and f has built the callee frame and entered its run()
Entered ==
    /\ Called
    /\ status = "running"
    /\ Len(frames) = last.depth + 1
    /\ Top.counter = 0

\* The call failed and no callee frame was run
Failed == status \notin {"running", "done"} /\ Len(frames) = 1

\* The code object of: def f(a, /, b, *args, c)
CodeABCArgs == FuncCode(2, 1, 1, TRUE, FALSE, ReturnZero)

\* C1: the callable of code a, /, b, *args, c with the one default 5, called with
\* positional (1,) and keyword {c: 9}, starts the callee frame with locals
\* a=1, b=5, c=9, args=().
CexC1_DefaultToB ==
    (/\ Called
     /\ last.f.code.c = CodeABCArgs
     /\ last.f.defaults = <<PyInt(5)>>
     /\ last.args = <<PyInt(1)>>
     /\ last.kwargs = ("c" :> PyInt(9)))
    => /\ Entered
       /\ dicts[Top.locals] =
             [k \in {"a", "b", "c", "args"} |->
                 CASE k = "a" -> PyInt(1) [] k = "b" -> PyInt(5) [] k = "c" -> PyInt(9)
                   [] OTHER -> Tuple(<<>>)]

min(a, b) == IF a < b THEN a ELSE b

\* C2 as claimed: a callable with P positional parameters and a varargs slot, called with
\* m positional arguments, binds the first min(m, P) to the positional parameter names
\* in order and the varargs name to the tuple of the remaining ones.
CexC2_PositionalsAlwaysBound ==
    (Entered /\ flagged(last.f.code.c, CO_VARARGS)) =>
        LET code == last.f.code.c
            P == code.co_argcount
            m == Len(last.args)
            loc == dicts[Top.locals]
        IN  /\ \A i \in 1..min(m, P) :
                  /\ code.co_varnames[i] \in DOMAIN loc
                  /\ loc[code.co_varnames[i]] = last.args[i]
            /\ code.co_varnames[P + code.co_kwonlyargcount + 1] \in DOMAIN loc
            /\ loc[code.co_varnames[P + code.co_kwonlyargcount + 1]]
                  = Tuple(SubSeq(last.args, P + 1, m))

\* C2 amended: ... binds each of the first min(m, P) to its positional parameter name,
\* except that a positional-or-keyword parameter also passed by keyword takes the
\* keyword's value, and binds the varargs name to the tuple of the remaining arguments
\* in order (the empty tuple when m <= P).
ThmC2_VarargsTail ==
    (Entered /\ flagged(last.f.code.c, CO_VARARGS)) =>
        LET code == last.f.code.c
            P == code.co_argcount
            m == Len(last.args)
            loc == dicts[Top.locals]
        IN  /\ \A i \in 1..min(m, P) :
                  /\ code.co_varnames[i] \in DOMAIN loc
                  /\ loc[code.co_varnames[i]] =
                        IF i > code.co_posonlyargcount
                           /\ code.co_varnames[i] \in DOMAIN last.kwargs
                        THEN last.kwargs[code.co_varnames[i]]
                        ELSE last.args[i]
            /\ code.co_varnames[P + code.co_kwonlyargcount + 1] \in DOMAIN loc
            /\ loc[code.co_varnames[P + code.co_kwonlyargcount + 1]]
                  = Tuple(SubSeq(last.args, P + 1, m))

\* C2 witness: the callable a, /, b=5, *args, c called with (1, 2, 3) and {c: 9} has
\* started its frame with a=1, b=2, args=(3,), c=9.
WitC2_OneTwoThree ==
    /\ Entered
    /\ last.f.code.c = CodeABCArgs
    /\ last.f.defaults = <<PyInt(5)>>
    /\ last.args = <<PyInt(1), PyInt(2), PyInt(3)>>
    /\ last.kwargs = ("c" :> PyInt(9))
    /\ dicts[Top.locals] =
          [k \in {"a", "b", "c", "args"} |->
              CASE k = "a" -> PyInt(1) [] k = "b" -> PyInt(2) [] k = "c" -> PyInt(9)
                [] OTHER -> Tuple(<<PyInt(3)>>)]

\* The declared parameters of the last call that receive no positional value, no keyword
\* value and no default (the defaults belong to the last positional parameters; f takes
\* no keyword-only defaults)
Missing ==
    LET code == last.f.code.c
        P == code.co_argcount
    IN  {code.co_varnames[i] : i \in
            {j \in 1..(P + code.co_kwonlyargcount) :
                /\ j > Len(last.args) \/ j > P
                /\ j <= code.co_posonlyargcount \/ code.co_varnames[j] \notin DOMAIN last.kwargs
                /\ j <= P - Len(last.f.defaults) \/ j > P}}

\* C3: a call in which some declared parameter receives no positional value, no keyword
\* value and no default fails, and the callee frame is not run.
CexC3_MissingArgumentFails ==
    (Called /\ Missing # {}) => Failed

\* C4: a call with more positional arguments than the code's positional parameter count,
\* for a code without a varargs slot, fails, and the callee frame is not run.
CexC4_ExcessPositionalFails ==
    (/\ Called
     /\ ~flagged(last.f.code.c, CO_VARARGS)
     /\ Len(last.args) > last.f.code.c.co_argcount)
    => Failed

\* C5: a call with a keyword that names neither a positional-or-keyword nor a
\* keyword-only parameter, for a code without a varkwargs slot, fails, and the callee
\* frame is not run.
CexC5_UnexpectedKeywordFails ==
    (/\ Called
     /\ ~flagged(last.f.code.c, CO_VARKEYWORDS)
     /\ LET code == last.f.code.c
        IN  \E k \in DOMAIN last.kwargs :
               \A i \in (code.co_posonlyargcount + 1)..(code.co_argcount
                                                        + code.co_kwonlyargcount) :
                  code.co_varnames[i] # k)
    => Failed

----------------------------------------------------------------------------
(* Claims about the dicts of a callee frame *)

\* The bindings of the call just made
Bound == parsed_args(last.f.code.c, last.f.defaults, last.args, last.kwargs)

\* The locals of the frame that built the callable just called, as the call found them
DefinerLocals == last.dicts[last.f.self.locals]

ThmC7_GlobalsShared ==
    /\ \A i \in 1..Len(frames) :
          /\ frames[i].globals = frames[1].globals
          /\ frames[i].builtins = frames[1].builtins
    /\ (last.op = "STORE_GLOBAL" /\ status = "running")
       => \A i \in 1..Len(frames) :
             /\ last.argval \in DOMAIN dicts[frames[i].globals]
             /\ dicts[frames[i].globals][last.argval] = top(last.frame)
    /\ (last.op = "LOAD_GLOBAL" /\ status = "running"
           /\ last.argval \in DOMAIN dicts[frames[1].globals])
       => top(Top) = dicts[frames[1].globals][last.argval]

\* The callee of a callee has bound by store_global a name the globals did not hold
WitC7_StoredTwoCallsDeep ==
    /\ last.op = "STORE_GLOBAL"
    /\ status = "running"
    /\ last.depth = 3
    /\ last.argval \notin DOMAIN last.dicts[frames[1].globals]
    /\ last.argval \in DOMAIN dicts[frames[1].globals]

----------------------------------------------------------------------------
(* Claims about iteration *)

\* for_iter has run on a stack whose top is an iterator
ForIterStep ==
    /\ last.op = "FOR_ITER"
    /\ ~empty(last.frame)
    /\ top(last.frame).t = "iterator"

\* The iterator for_iter found on top of the stack, as it was then
ForIterOf == last.iters[top(last.frame).at]

\* C11: a for_iter step on an iterator with elements left pushes the next element in
\* order above the iterator, takes it from the iterator and leaves self.jump unset, so
\* the loop goes on to the following instruction; a for_iter step on an exhausted
\* iterator pops the iterator, pushes nothing and sets self.jump to its argument, where
\* the loop goes next.  So k steps push the k remaining elements and step k+1 exits.
ThmC11_ForIter ==
    ForIterStep =>
        /\ status = "running"
        /\ IF ForIterOf.taken < Len(ForIterOf.s)
           THEN /\ Top.data_stack =
                      Append(last.frame.data_stack, ForIterOf.s[ForIterOf.taken + 1])
                /\ iters[top(last.frame).at].taken = ForIterOf.taken + 1
                /\ last.jump = None
                /\ Top.counter = last.frame.counter + 2
           ELSE /\ Top.data_stack =
                      SubSeq(last.frame.data_stack, 1, Len(last.frame.data_stack) - 1)
                /\ iters = last.iters
                /\ last.jump = PyInt(last.argval)
                /\ Top.counter = last.argval
        /\ Top.jump = None

\* The third for_iter on the iterator of a tuple of two elements has left the loop
WitC11_ThirdStepExits ==
    /\ ForIterStep
    /\ ForIterOf.s = <<PyInt(1), PyInt(2)>>
    /\ ForIterOf.taken = 2
    /\ status = "running"
    /\ Top.counter = last.argval
    /\ last.argval # last.frame.counter + 2

----------------------------------------------------------------------------
(* Claims about raise *)

\* The run has ended with an exception of Python
Fails == status \notin {"running", "done"}

\* raise_varargs has run with 1 to 3 operands on a stack that holds as many
RaiseStep ==
    /\ last.op = "RAISE_VARARGS"
    /\ last.argval \in 1..3
    /\ Len(last.frame.data_stack) >= last.argval

\* C12: a raise with 1 to 3 operands pops exactly that many values, stores the record
\* in last_exception, and the frame's run ends there, reporting to its caller the
\* outcome "reraise" if a traceback was given and "exception" otherwise.
CexC12_RaiseReported ==
    RaiseStep =>
        /\ Len(Top.data_stack) = Len(last.frame.data_stack) - last.argval
        /\ Len(Top.last_exception) = 3
        /\ status = (IF last.argval = 3 /\ top(last.frame) # None
                     THEN "reraise" ELSE "exception")

\* C16: a raise with 0 operands, in a frame that has raised before or not, pops
\* nothing, leaves last_exception as it was, yields the outcome of the stored traceback
\* ("exception" when none is stored) and does not fail.
CexC16_BareRaise ==
    (last.op = "RAISE_VARARGS" /\ last.argval = 0) =>
        /\ ~Fails
        /\ Top.data_stack = last.frame.data_stack
        /\ Top.last_exception = last.frame.last_exception
        /\ last.ret = (IF Len(last.frame.last_exception) = 3
                       THEN outcome(last.frame.last_exception[3])
                       ELSE Str("exception"))

----------------------------------------------------------------------------
(* Claims about the pointer of the loop *)

\* The last step was a handler run by the loop
Dispatched == last.op \notin {"", "run"}

\* Between the passes of the loop, while a run goes on
PointerInv ==
    status = "running" =>
        \A i \in 1..Len(frames) : frames[i].jump = None /\ frames[i].counter >= 0

\* What a pass of the loop has done to the pointer
PointerStep ==
    /\ Dispatched => last.frame.counter < last.frame.bytecode_len
    /\ (Dispatched /\ status = "running") =>
          IF last.jump # None
          THEN Top.counter = last.jump.i
          ELSE IF last.op = "RETURN_VALUE"
          THEN Top.counter >= Top.bytecode_len
          ELSE Top.counter = last.frame.counter + 2

\* C13: between steps self.jump is None and the pointer is not negative; a step whose
\* handler set self.jump leaves the pointer at that target and self.jump None; any
\* other step but a return moves the pointer by one instruction; an instruction is
\* fetched only while the pointer is below bytecode_len; and a return_value is the last
\* instruction its frame executes: the next thing the frame does is leave run().
C13Step ==
    /\ PointerInv /\ PointerInv'
    /\ PointerStep'
    /\ (last.op = "RETURN_VALUE" /\ status = "running") => last'.op = "run"

ThmC13_Pointer == [][C13Step]_vars

\* A return_value before the last instruction of the code has ended the loop
WitC13_ReturnedEarly ==
    /\ last.op = "RETURN_VALUE"
    /\ status = "running"
    /\ last.index < MaxInstr - 1
    /\ Top.counter >= Top.bytecode_len

----------------------------------------------------------------------------
(* Claims about the operand stack *)

\* C14: popn(n) with n greater than the depth of the stack fails; it does not return
\* fewer than n values and does not empty the stack.
CexC14_PopnUnderflowFails ==
    (last.op = "popn" /\ last.argval > Len(last.frame.data_stack)) => Fails

\* An or-pop jump has run on a stack that is not empty
OrPopStep ==
    /\ last.op \in {"JUMP_IF_TRUE_OR_POP", "JUMP_IF_FALSE_OR_POP"}
    /\ ~empty(last.frame)

\* C15, as stated: jump_if_true_or_pop and jump_if_false_or_pop leave the tested value
\* on the stack when they do not jump and pop it when they jump.
CexC15_PopsWhenJumping ==
    OrPopStep =>
        Top.data_stack = IF last.jump # None
                         THEN pop(last.frame).F.data_stack
                         ELSE last.frame.data_stack

\* C15, amended: jump_if_true_or_pop jumps exactly when the tested value is truthy and
\* jump_if_false_or_pop exactly when it is falsy; both leave the tested value on the
\* stack when they jump and pop it, and nothing else, when they do not.
ThmC15_PopsWhenNotJumping ==
    OrPopStep =>
        /\ status = "running"
        /\ (last.jump # None) <=>
              (truthy(top(last.frame)) <=> (last.op = "JUMP_IF_TRUE_OR_POP"))
        /\ last.jump # None => last.jump = PyInt(last.argval)
        /\ Top.data_stack = IF last.jump # None
                            THEN last.frame.data_stack
                            ELSE pop(last.frame).F.data_stack

\* jump_if_false_or_pop has jumped on a falsy value and left it on the stack
WitC15_FalsyKept ==
    /\ OrPopStep
    /\ last.op = "JUMP_IF_FALSE_OR_POP"
    /\ ~truthy(top(last.frame))
    /\ status = "running"
    /\ Top.counter = last.argval
    /\ Top.data_stack = last.frame.data_stack

\* The mapping of the pairs k1, v1, ..., kc, vc that toses holds, a later pair replacing
\* an earlier one of the same key
RECURSIVE PairsOf(_, _)
PairsOf(toses, c) ==
    IF c <= 0 THEN EmptyDict
    ELSE (toses[2 * c - 1] :> toses[2 * c]) @@ PairsOf(toses, c - 1)

\* C17: build_map c on a stack that holds at least 2c values, the keys among them
\* hashable, pops exactly the top 2c values k1, v1, ..., kc, vc and pushes one mapping
\* whose entries are exactly the pairs ki -> vi.
CexC17_BuildMapPairs ==
    (/\ last.op = "BUILD_MAP"
     /\ Len(last.frame.data_stack) >= 2 * last.argval
     /\ \A i \in 1..last.argval :
           ~unhashable(popn(last.frame, 2 * last.argval).v[2 * i - 1]))
    => /\ status = "running"
       /\ Top.data_stack =
             Append(popn(last.frame, 2 * last.argval).F.data_stack,
                    Dict(PairsOf(popn(last.frame, 2 * last.argval).v, last.argval)))

\* The stack with its top N values rotated: the top moved to the N-th place from the
\* top, the N-1 values that were below it each one place up
Rotated(stack, N) ==
    SubSeq(stack, 1, Len(stack) - N)
    \o <<stack[Len(stack)]>>
    \o SubSeq(stack, Len(stack) - N + 1, Len(stack) - 1)

\* C18: rot_n N with 2 <= N <= depth keeps the depth, rotates the top N values and
\* leaves the values below them as they are; rot_n 2 does what rot_two does and
\* rot_n 3 what rot_three does.
CexC18_RotNTopN ==
    (/\ last.op = "ROT_N"
     /\ last.argval >= 2
     /\ last.argval <= Len(last.frame.data_stack))
    => /\ status = "running"
       /\ Top.data_stack = Rotated(last.frame.data_stack, last.argval)

----------------------------------------------------------------------------
(* Claims about names *)

\* The dict d holds for every name but n what the dict e holds
SameBut(d, e, n) ==
    /\ DOMAIN d \ {n} = DOMAIN e \ {n}
    /\ \A m \in DOMAIN d \ {n} : d[m] = e[m]

\* C19: in any frame, top-level or built by a call, delete_name n acts on the mapping
\* store_name writes to, the locals of the frame: where n is bound there (as it is
\* after store_name n) it leaves n not bound there and the globals otherwise as they
\* were, and it fails with KeyError exactly when n is not bound there.
CexC19_DeleteNameOfLocals ==
    (last.op = "DELETE_NAME") =>
        IF last.argval \in DOMAIN last.dicts[last.frame.locals]
        THEN /\ status = "running"
             /\ last.argval \notin DOMAIN dicts[last.frame.locals]
             /\ SameBut(dicts[last.frame.globals], last.dicts[last.frame.globals],
                        last.argval)
        ELSE status = "KeyError"

\* C20: load_fast n, for every name n, '.0' among them, pushes the value the locals
\* of the frame hold for n and leaves the rest of the stack as it is, and fails with
\* UnboundLocalError, the stack untouched, when the locals do not hold n.
CexC20_LoadFastOfLocals ==
    (last.op = "LOAD_FAST") =>
        IF last.argval \in DOMAIN last.dicts[last.frame.locals]
        THEN /\ status = "running"
             /\ Top.data_stack = Append(last.frame.data_stack,
                                        last.dicts[last.frame.locals][last.argval])
        ELSE /\ status = "UnboundLocalError"
             /\ Top.data_stack = last.frame.data_stack

----------------------------------------------------------------------------
(* Claims about defaults *)

\* C21: a callable without keyword-only parameters, with P positional parameters and
\* d <= P defaults, called with exactly P - d positional arguments and no keywords,
\* starts the callee frame with the last d positional parameters bound to the d
\* defaults in order, whatever names follow the parameters in co_varnames.
CexC21_DefaultsRightAligned ==
    (/\ Called
     /\ last.f.code.c.co_kwonlyargcount = 0
     /\ Len(last.f.defaults) <= last.f.code.c.co_argcount
     /\ Len(last.args) = last.f.code.c.co_argcount - Len(last.f.defaults)
     /\ last.kwargs = EmptyDict)
    => /\ Entered
       /\ LET code == last.f.code.c
              P == code.co_argcount
              d == Len(last.f.defaults)
          IN  \A i \in 1..d :
                 /\ code.co_varnames[P - d + i] \in DOMAIN dicts[Top.locals]
                 /\ dicts[Top.locals][code.co_varnames[P - d + i]] = last.f.defaults[i]

----------------------------------------------------------------------------
(* Claims about the names of the top-level frame *)

\* No binding of a name
Unbound == [t |-> "unbound"]

\* What the mapping of the locals of the top-level frame holds for n, in the heap D
\* with the frames fs
TopLevel(D, fs, n) ==
    IF n \in DOMAIN D[fs[1].locals] THEN D[fs[1].locals][n] ELSE Unbound

\* C22: the top-level frame has one mapping as locals and globals, and every frame
\* reached through calls has it as globals.  A store_name n of v at top level binds n
\* to v in it; a load_global n, in whichever frame, of a name bound in it pushes that
\* binding; and the binding of a name in it changes only by a store or a delete of
\* that name.  So load_global n yields v from the store_name on, until n is stored
\* again or deleted, also in a callable that loads its own name.
C22Step ==
    /\ frames'[1].locals = frames'[1].globals
    /\ \A i \in 1..Len(frames') : frames'[i].globals = frames'[1].locals
    /\ (last'.op = "STORE_NAME" /\ last'.depth = 1 /\ status' = "running")
       => TopLevel(dicts', frames', last'.argval) = top(last'.frame)
    /\ (last'.op = "LOAD_GLOBAL" /\ status' = "running"
           /\ TopLevel(dicts, frames, last'.argval) # Unbound)
       => /\ TopLevel(dicts', frames', last'.argval) = TopLevel(dicts, frames, last'.argval)
          /\ frames'[Len(frames')].data_stack =
                Append(last'.frame.data_stack, TopLevel(dicts, frames, last'.argval))
    /\ \A n \in VMNames :
          TopLevel(dicts', frames', n) # TopLevel(dicts, frames, n) =>
             /\ last'.op \in {"STORE_NAME", "STORE_FAST", "STORE_GLOBAL",
                               "DELETE_NAME", "DELETE_FAST"}
             /\ last'.argval = n

ThmC22_TopLevelNames == [][C22Step]_vars

\* A callable called from the top level has loaded, by load_global, the name the top
\* level bound to it: it holds itself
WitC22_LoadsItself ==
    /\ last.op = "LOAD_GLOBAL"
    /\ status = "running"
    /\ last.depth = 2
    /\ top(Top).t = "function"
    /\ top(Top).code = CodeType(Top.code)
    /\ TopLevel(dicts, frames, last.argval) = top(Top)

============================================================================
